---- MODULE Spec2Model ----
(***************************************************************************)
(* Captcha subsystem of the server: the in-memory CaptchaService, the      *)
(* Redis-backed CaptchaRedisService, the RedisService wrapper they use and *)
(* the CaptchaController endpoints that dispatch to them.                  *)
(*                                                                         *)
(* Time is in milliseconds and advances TickMs at a time; Date.now() is    *)
(* the variable now.  Strings are sequences of one-character strings.      *)
(***************************************************************************)
EXTENDS Integers, Sequences, FiniteSets, TLC

(* ------------------------------ bounds -------------------------------- *)
TickMs == 500
MaxTicks == 3
MaxLen == 1
MaxRand == 1
MaxGen == 2
MaxCalls == 2

(* ------------------------- program constants -------------------------- *)
DefaultExpireTime == 300
DefaultMaxAttempts == 3
DefaultLength == 4
SecMs == 1000
ControllerExpiresIn == 300

(* --------------------------- value domains ---------------------------- *)
\* characters svgCaptcha.create draws from (an abstraction of its alphanumeric preset)
PresetChars == {"a", "A"}

\* a character no challenge text contains
OtherChars == {"b"}

\* JavaScript undefined, as a value of a string-typed slot
Undefined == <<"undefined">>

\* String.prototype.toLowerCase on one character
lowerChar(c) == IF c = "A" THEN "a" ELSE IF c = "B" THEN "b" ELSE c

\* faulty variant: the case fold is skipped
toLowerCaseSkipped(s) == s

\* String.prototype.toLowerCase
toLowerCase(s) == [i \in 1..Len(s) |-> lowerChar(s[i])]

\* all strings of length n over the set of characters cs
StringsOf(cs, n) == [1..n -> cs]

\* Number.prototype.toString of a one-digit number
DigitString(n) == << CASE n = 1 -> "1" [] n = 2 -> "2" [] n = 3 -> "3" [] n = 4 -> "4"
                        [] OTHER -> "0" >>

\* operands random.mathExpr draws from (an abstraction of mathMin..mathMax)
MathOperands == {1}

Types == {"default", "math", "numeric", "bogus"}

\* the random suffix StringUtils.generateRandom(8) returns
RandSuffix == 1..MaxRand

\* an id no generate can mint (now is never negative)
DevTestId == <<-1, 0>>
DevTestCode == <<"A">>

\* what a caller can pass as userInput
UserInputs == UNION {StringsOf(PresetChars \cup OtherChars, n) : n \in 1..MaxLen}
                \cup {DigitString(a + b) : a \in MathOperands, b \in MathOperands}
                \cup {Undefined}

\* the options bag of generate / refresh; 0 stands for an absent key
NoOptions == [size |-> 0, length |-> 0, expireTime |-> 0, maxAttempts |-> 0]
OptionsSpace == {[NoOptions EXCEPT !.expireTime = 1],
                 [NoOptions EXCEPT !.expireTime = 1, !.size = MaxLen, !.length = MaxLen]}

\* the options the controller builds from the query: only the size, from length
CtlOptionsSpace == {NoOptions, [NoOptions EXCEPT !.size = MaxLen]}

\* process configuration (core/config); 0 stands for an unset key
ConfigSpace == [length : {1}, expireTime : {1}, maxAttempts : {0}]

EnvSpace == [NODE_ENV : {"development", "production"},
             CAPTCHA_USE_REDIS : {"true", "false"},
             DEV_TEST_CAPTCHA_ID : {DevTestId},
             DEV_TEST_CAPTCHA_CODE : {DevTestCode}]

VARIABLES
  now,            \* Date.now(), in milliseconds
  config,         \* core/config values
  env,            \* process.env
  useRedis,       \* CaptchaController.useRedis: which service the controller is bound to
  captchaStore,   \* CaptchaService.captchaStore: the Map id -> captchaInfo
  redis,          \* the Redis keyspace: key -> the stored value and its expiry time
  redisReady,     \* redisService.isReady()
  calls,          \* the calls of the Redis service in flight, by request slot
  last,           \* the last completed call and what it returned
  issued,         \* every id a generate has minted so far
  track,          \* the history of each issued id (for the properties)
  audit,          \* the count of comparing verify calls per id, where it is kept
  wiring          \* the service objects: who holds which CaptchaService, and its timer

vars == <<now, config, env, useRedis, captchaStore, redis, redisReady, calls, last, issued,
          track, audit, wiring>>

(* ------------------------------ helpers ------------------------------- *)
\* a || b on numbers: a unless it is falsy
OrElse(a, b) == IF a # 0 THEN a ELSE b

\* Map.prototype.delete
MapDelete(m, k) == [x \in (DOMAIN m) \ {k} |-> m[x]]

\* Map.prototype.set
MapSet(m, k, v) == [x \in (DOMAIN m) \cup {k} |-> IF x = k THEN v ELSE m[x]]

\* CACHE_KEYS.CAPTCHA + Date.now() + '_' + random suffix
generateCaptchaId(t, r) == <<t, r>>

(* --------------------- svg-captcha (the renderer) --------------------- *)
\* svgCaptcha.create(options): a random text of options.size characters and its drawing
create(size) == {[text |-> t, data |-> <<"<svg>">> \o t \o <<"</svg>">>] :
                   t \in StringsOf(PresetChars, size)}

\* svgCaptcha.createMathExpr(options): the text is the result, the drawing shows the equation
createMathExpr == {[text |-> DigitString(a + b),
                    data |-> <<"<svg>">> \o DigitString(a) \o <<"+">> \o DigitString(b)
                               \o <<"</svg>">>] :
                     a \in MathOperands, b \in MathOperands}

\* svgCaptcha(options): the module itself called as a function returns only
\* the svg string, so the .text of the result is undefined
svgCaptchaCall == {[text |-> Undefined, data |-> <<"<svg>", "</svg>">>]}

\* the switch of generateCaptcha on type
renderByType(type, size) ==
  CASE type = "math" -> createMathExpr
    [] type = "numeric" -> svgCaptchaCall
    [] OTHER -> create(size)

(* --------------------- CaptchaService (in memory) --------------------- *)
Thrown == [thrown |-> TRUE]
Returned(v) == [thrown |-> FALSE, value |-> v]

\* size of the text generateCaptcha asks the renderer for
localSize(cfg, options) == OrElse(options.size, OrElse(cfg.length, DefaultLength))

\* faulty variant: the returned object carries the stored text
generateCaptchaWithText(store, t, cfg, type, options, r, captcha) ==
  LET captchaId == generateCaptchaId(t, r)
      expireTime == OrElse(cfg.expireTime, DefaultExpireTime)
      maxAttempts == OrElse(cfg.maxAttempts, DefaultMaxAttempts)
      expiresAt == t + expireTime * SecMs
      captchaInfo == [id |-> captchaId, text |-> toLowerCase(captcha.text), type |-> type,
                      createdAt |-> t, expiresAt |-> expiresAt,
                      attempts |-> 0, maxAttempts |-> maxAttempts]
  IN IF captcha.text = Undefined
       THEN [res |-> Thrown, store |-> store]
       ELSE [res |-> Returned([id |-> captchaId, svg |-> captcha.data, text |-> captchaInfo.text,
                               expiresAt |-> expiresAt, expiresIn |-> expireTime]),
             store |-> MapSet(store, captchaId, captchaInfo)]

\* CaptchaService.generateCaptcha, given the id suffix r and the renderer's output captcha
generateCaptcha(store, t, cfg, type, options, r, captcha) ==
  LET captchaId == generateCaptchaId(t, r)
      expireTime == OrElse(cfg.expireTime, DefaultExpireTime)
      maxAttempts == OrElse(cfg.maxAttempts, DefaultMaxAttempts)
      expiresAt == t + expireTime * SecMs
      captchaInfo == [id |-> captchaId, text |-> toLowerCase(captcha.text), type |-> type,
                      createdAt |-> t, expiresAt |-> expiresAt,
                      attempts |-> 0, maxAttempts |-> maxAttempts]
  IN IF captcha.text = Undefined
       THEN [res |-> Thrown, store |-> store]
       ELSE [res |-> Returned([id |-> captchaId, svg |-> captcha.data,
                               expiresAt |-> expiresAt, expiresIn |-> expireTime]),
             store |-> MapSet(store, captchaId, captchaInfo)]

VerifyResult(success, error, message, attemptsLeft) ==
  Returned([success |-> success, error |-> error, message |-> message,
            attemptsLeft |-> attemptsLeft])

\* faulty variant: there is no test pair
devBypassOff(e, captchaId, userInput) == FALSE

\* faulty variant: the test pair is accepted whatever NODE_ENV is
devBypassAnyEnv(e, captchaId, userInput) ==
  /\ captchaId = e.DEV_TEST_CAPTCHA_ID
  /\ userInput = e.DEV_TEST_CAPTCHA_CODE

\* the development-mode test pair, matched with ===
devBypass(e, captchaId, userInput) ==
  /\ e.NODE_ENV = "development"
  /\ captchaId = e.DEV_TEST_CAPTCHA_ID
  /\ userInput = e.DEV_TEST_CAPTCHA_CODE

\* faulty variant: a record never counts as expired
isExpiredNever(t, captchaInfo) == FALSE

\* new Date() > captchaInfo.expiresAt (the Redis service tests now > expiresAt)
isExpired(t, captchaInfo) == t > captchaInfo.expiresAt

\* faulty variant: one more failed call is let through
attemptsExhaustedLate(captchaInfo) == captchaInfo.attempts > captchaInfo.maxAttempts

\* faulty variant: the test counts the call being made
attemptsExhaustedEarly(captchaInfo) == captchaInfo.attempts + 1 >= captchaInfo.maxAttempts

\* captchaInfo.attempts >= captchaInfo.maxAttempts, tested before attempts++
attemptsExhausted(captchaInfo) == captchaInfo.attempts >= captchaInfo.maxAttempts

\* faulty variant: the input is compared as typed
textMatchesExactly(userInput, captchaInfo) == userInput = captchaInfo.text

\* userInput.toLowerCase() === captchaInfo.text
textMatches(userInput, captchaInfo) == toLowerCase(userInput) = captchaInfo.text

\* CaptchaService.verifyCaptcha
verifyCaptcha(store, t, e, captchaId, userInput) ==
  IF devBypass(e, captchaId, userInput)
    THEN [res |-> VerifyResult(TRUE, "none", "ok-test-mode", -1), store |-> store]
  ELSE IF captchaId \notin DOMAIN store
    THEN [res |-> VerifyResult(FALSE, "CAPTCHA_NOT_FOUND", "missing-or-expired", -1),
          store |-> store]
  ELSE LET captchaInfo == store[captchaId]
           counted == [captchaInfo EXCEPT !.attempts = @ + 1]
       IN IF isExpired(t, captchaInfo)
            THEN [res |-> VerifyResult(FALSE, "CAPTCHA_EXPIRED", "expired", -1),
                  store |-> MapDelete(store, captchaId)]
          ELSE IF attemptsExhausted(captchaInfo)
            THEN [res |-> VerifyResult(FALSE, "CAPTCHA_MAX_ATTEMPTS", "too-many-attempts", -1),
                  store |-> MapDelete(store, captchaId)]
          ELSE IF userInput = Undefined
            THEN [res |-> Thrown, store |-> MapSet(store, captchaId, counted)]
          ELSE IF textMatches(userInput, captchaInfo)
            THEN [res |-> VerifyResult(TRUE, "none", "ok", -1),
                  store |-> MapDelete(store, captchaId)]
          ELSE [res |-> VerifyResult(FALSE, "CAPTCHA_INVALID", "wrong",
                                     counted.maxAttempts - counted.attempts),
                store |-> MapSet(store, captchaId, counted)]

\* faulty variant: the sweep also takes the records expiring at this instant
expiredKeysInclusive(store, t) == {k \in DOMAIN store : t >= store[k].expiresAt}

\* keys the sweep loops of cleanup / cleanupExpiredCaptchas delete
expiredKeys(store, t) == {k \in DOMAIN store : t > store[k].expiresAt}

\* CaptchaService.cleanup (the setInterval callback): returns nothing
cleanup(store, t) == [k \in (DOMAIN store) \ expiredKeys(store, t) |-> store[k]]

\* CaptchaService.cleanupExpiredCaptchas
cleanupExpiredCaptchas(store, t) ==
  [res |-> Returned([cleanedCount |-> Cardinality(expiredKeys(store, t))]),
   store |-> [k \in (DOMAIN store) \ expiredKeys(store, t) |-> store[k]]]

\* faulty variant: the expired counter also takes the records expiring at this instant
getStatsInclusive(store, t) ==
  LET expiredCount == Cardinality({k \in DOMAIN store : t >= store[k].expiresAt})
      activeCount == Cardinality({k \in DOMAIN store : ~(t > store[k].expiresAt)})
  IN [total |-> Cardinality(DOMAIN store), active |-> activeCount, expired |-> expiredCount,
      totalGenerated |-> Cardinality(DOMAIN store), totalVerified |-> activeCount,
      activeCaptchas |-> activeCount, captchaStore |-> store]

\* CaptchaService.getStats (the counters; captchaStore is the dump of the Map)
getStats(store, t) ==
  LET expiredCount == Cardinality({k \in DOMAIN store : t > store[k].expiresAt})
      activeCount == Cardinality({k \in DOMAIN store : ~(t > store[k].expiresAt)})
  IN [total |-> Cardinality(DOMAIN store), active |-> activeCount, expired |-> expiredCount,
      totalGenerated |-> Cardinality(DOMAIN store), totalVerified |-> activeCount,
      activeCaptchas |-> activeCount, captchaStore |-> store]

\* an absent (falsy) captchaId
NoId == <<>>

\* CaptchaService.refreshCaptcha
refreshCaptcha(store, t, cfg, captchaId, type, options, r, captcha) ==
  generateCaptcha(IF captchaId # NoId THEN MapDelete(store, captchaId) ELSE store,
                  t, cfg, type, options, r, captcha)

\* CaptchaService.generateNumericCaptcha
generateNumericCaptcha(store, t, cfg, options, r, captcha) ==
  generateCaptcha(store, t, cfg, "numeric", [options EXCEPT !.size = OrElse(@, DefaultLength)],
                  r, captcha)

\* CaptchaService.generateMathCaptcha
generateMathCaptcha(store, t, cfg, options, r, captcha) ==
  generateCaptcha(store, t, cfg, "math", options, r, captcha)

(* ------------------------- CaptchaController -------------------------- *)
\* CaptchaTypeEnum.getAll()
CaptchaTypeEnum == {"login", "register", "reset_password", "change_email"}

\* validTypes of CaptchaController.generateCaptcha
validTypes == {"default", "math", "numeric"} \cup CaptchaTypeEnum

\* the branch the controller takes on (type, mathExpr)
ctlRoute(type, mathExpr) ==
  IF type = "math" \/ mathExpr THEN "math"
  ELSE IF type = "numeric" THEN "numeric"
  ELSE type

Http(status, code, data) == Returned([status |-> status, code |-> code, data |-> data])

NoData == [none |-> TRUE]

\* the response both generate and refresh endpoints build from the service's result
ctlChallengeResponse(res, failCode) ==
  IF res.thrown THEN Http(500, failCode, NoData)
  ELSE Http(200, "OK", [captchaId |-> res.value.id, captchaSvg |-> res.value.svg,
                        expiresAt |-> res.value.expiresAt, expiresIn |-> ControllerExpiresIn])

\* CaptchaController.generateCaptcha bound to the in-memory service
ctlGenerateCaptcha(store, t, cfg, type, mathExpr, options, r, captcha) ==
  IF type \notin validTypes
    THEN [res |-> Http(400, "INVALID_CAPTCHA_TYPE", NoData), store |-> store]
  ELSE LET out == CASE ctlRoute(type, mathExpr) = "math" ->
                         generateMathCaptcha(store, t, cfg, options, r, captcha)
                    [] ctlRoute(type, mathExpr) = "numeric" ->
                         generateNumericCaptcha(store, t, cfg, options, r, captcha)
                    [] OTHER -> generateCaptcha(store, t, cfg, type, options, r, captcha)
       IN [res |-> ctlChallengeResponse(out.res, "CAPTCHA_GENERATION_FAILED"),
           store |-> out.store]

\* CaptchaController.refreshCaptcha bound to the in-memory service
ctlRefreshCaptcha(store, t, cfg, captchaId, type, mathExpr, options, r, captcha) ==
  LET out == CASE ctlRoute(type, mathExpr) = "math" ->
                    generateMathCaptcha(store, t, cfg, options, r, captcha)
               [] ctlRoute(type, mathExpr) = "numeric" ->
                    generateNumericCaptcha(store, t, cfg, options, r, captcha)
               [] OTHER -> refreshCaptcha(store, t, cfg, captchaId, type, options, r, captcha)
  IN [res |-> ctlChallengeResponse(out.res, "CAPTCHA_REFRESH_FAILED"), store |-> out.store]


(* ---------------------------- RedisService ---------------------------- *)
\* what redisService.get resolves to for a missing key
Null == [null |-> TRUE]

\* client.get(key) and JSON.parse
redisGet(rs, key) == IF key \in DOMAIN rs THEN rs[key].value ELSE Null

\* client.setex(key, ttl, JSON.stringify(value)); ttl is in seconds
redisSet(rs, t, key, value, ttl) ==
  MapSet(rs, key, [value |-> value, expireAt |-> t + ttl * SecMs])

\* client.del(key)
redisDel(rs, key) == MapDelete(rs, key)

\* client.ttl(key): the remaining time rounded to seconds, -2 for a missing key
redisTtl(rs, t, key) ==
  IF key \in DOMAIN rs THEN (rs[key].expireAt - t + 500) \div SecMs ELSE -2

\* the values of a keyspace, by key
RecordsOf(rs) == [k \in DOMAIN rs |-> rs[k].value]

\* Redis drops the keys whose expiry time has passed
redisExpire(rs, t) == [k \in {x \in DOMAIN rs : ~(t > rs[x].expireAt)} |-> rs[k]]

(* ------------------------ CaptchaRedisService ------------------------- *)
\* faulty variant: the connection always counts as ready
isReadyAlways(ready) == TRUE

\* redisService.isReady()
isReady(ready) == ready

\* CaptchaRedisService.generateCaptcha; expiresAt is stored as an ISO string,
\* which new Date() reads back to the same millisecond
redisGenerateCaptcha(rs, t, ready, cfg, type, options, r, captcha) ==
  LET captchaId == generateCaptchaId(t, r)
      expireTime == OrElse(options.expireTime, (5 * 60 * SecMs) \div SecMs)
      maxAttempts == OrElse(options.maxAttempts, DefaultMaxAttempts)
      expiresAt == t + expireTime * SecMs
      captchaInfo == [id |-> captchaId, text |-> toLowerCase(captcha.text), type |-> type,
                      createdAt |-> t, expiresAt |-> expiresAt,
                      attempts |-> 0, maxAttempts |-> maxAttempts]
  IN IF ~isReady(ready) \/ captcha.text = Undefined
       THEN [res |-> Thrown, store |-> rs]
       ELSE [res |-> Returned([id |-> captchaId, svg |-> captcha.data,
                               expiresAt |-> expiresAt, expiresIn |-> expireTime]),
             store |-> redisSet(rs, t, captchaId, captchaInfo, expireTime)]

\* size of the text CaptchaRedisService.generateCaptcha asks the renderer for
redisSize(cfg, options) == OrElse(options.length, OrElse(cfg.length, DefaultLength))

\* CaptchaRedisService.verifyCaptcha from the resolution of get up to the next
\* await: the outcome it decides on, with the record it holds and the key it deletes
redisVerifyDecide(captchaInfo, t, userInput) ==
  IF captchaInfo = Null
    THEN [next |-> "return", deletes |-> FALSE, info |-> captchaInfo,
          res |-> VerifyResult(FALSE, "CAPTCHA_NOT_FOUND", "missing-or-expired", -1)]
  ELSE IF isExpired(t, captchaInfo)
    THEN [next |-> "return", deletes |-> TRUE, info |-> captchaInfo,
          res |-> VerifyResult(FALSE, "CAPTCHA_EXPIRED", "expired", -1)]
  ELSE IF attemptsExhausted(captchaInfo)
    THEN [next |-> "return", deletes |-> TRUE, info |-> captchaInfo,
          res |-> VerifyResult(FALSE, "CAPTCHA_MAX_ATTEMPTS", "too-many-attempts", -1)]
  ELSE LET counted == [captchaInfo EXCEPT !.attempts = @ + 1]
       IN IF userInput = Undefined
            THEN [next |-> "return", deletes |-> FALSE, info |-> counted, res |-> Thrown]
          ELSE IF textMatches(userInput, captchaInfo)
            THEN [next |-> "return", deletes |-> TRUE, info |-> counted,
                  res |-> VerifyResult(TRUE, "none", "ok", -1)]
          ELSE [next |-> "ttl", deletes |-> FALSE, info |-> counted,
                res |-> VerifyResult(FALSE, "CAPTCHA_INVALID", "wrong",
                                     counted.maxAttempts - counted.attempts)]

(* ------------------------------ actions ------------------------------- *)
NoInput == <<>>

\* the record of a completed call: what was called, with what, and what came back
Call(op, via, id, input, type, res) ==
  [op |-> op, via |-> via, id |-> id, input |-> input, type |-> type, res |-> res]

NoCall == Call("none", "none", NoId, NoInput, "none", Thrown)

\* a request slot with no call in flight
Idle == [pc |-> "idle"]

\* request slots: calls of the Redis service that can be in flight together
Slots == 1..MaxCalls

AllIdle == \A c \in Slots : calls[c] = Idle

\* the keys of the store the bound service uses, and the record under a key
StoreKeys == IF useRedis THEN DOMAIN redis ELSE DOMAIN captchaStore
Stored(id) == IF useRedis THEN redisGet(redis, id)
              ELSE IF id \in DOMAIN captchaStore THEN captchaStore[id] ELSE Null

(* The history of each issued id, kept for the properties only:            *)
(*   run      - only verify calls with a string that was not accepted have *)
(*              completed on it so far, n of them (counted up to max + 2)  *)
(*   consumed - a verify call on it returned success                       *)
(*   owed     - its record passed expiresAt while stored, and no verify    *)
(*              call on it has completed and no refresh has named it since *)
(*   gone     - a verify call on it completed after that                   *)
(*   other    - anything else                                              *)
(* max is the maxAttempts its record was created with.                     *)
Fresh(max) == [tag |-> "run", n |-> 0, max |-> max]
Tagged(t, h) == [tag |-> t, n |-> 0, max |-> h.max]

\* history after a verify call on id returned res; counts says whether the
\* call continues a run of refused guesses
TrackVerify(id, res, counts) ==
  IF id \notin issued THEN track
  ELSE [track EXCEPT ![id] =
          IF @.tag \in {"consumed", "gone"} THEN @
          ELSE IF @.tag = "owed" THEN Tagged("gone", @)
          ELSE IF ~res.thrown /\ res.value.success THEN Tagged("consumed", @)
          ELSE IF @.tag = "run" /\ ~res.thrown /\ counts
            THEN [@ EXCEPT !.n = IF @ < track[id].max + 2 THEN @ + 1 ELSE @]
          ELSE Tagged("other", @)]

\* history after a call that minted the ids new, as stored in keyspace store,
\* and deleted the record of old
TrackChallenge(new, store, old) ==
  [id \in issued \cup new |->
     IF id \notin issued THEN Fresh(store[id].maxAttempts)
     ELSE IF id = old /\ track[id].tag \in {"run", "owed"} THEN Tagged("other", track[id])
     ELSE track[id]]

\* history after the clock moved to t
TrackTick(t) ==
  [id \in issued |->
     IF id \in StoreKeys /\ t > Stored(id).expiresAt /\ track[id].tag \in {"run", "other"}
       THEN Tagged("owed", track[id]) ELSE track[id]]

\* a verify call that returned res reached the comparison of its input with
\* the stored text: it returned from the success branch or the invalid branch
Compared(res) == ~res.thrown /\ (res.value.success \/ res.value.error = "CAPTCHA_INVALID")

\* the count of comparing verify calls: kept or not, and per id the number of
\* verify calls that compared their input with the stored answer (counted
\* up to maxAttempts + 1)
Audit(id, res) ==
  IF ~audit.on \/ ~Compared(res) \/ id \notin issued THEN audit
  ELSE LET seen == IF id \in DOMAIN audit.cmp THEN audit.cmp[id] ELSE 0
       IN [audit EXCEPT !.cmp = MapSet(@, id, IF seen > track[id].max THEN seen ELSE seen + 1)]

\* The service objects after the modules are loaded.  captchaStore is the
\* Map of the CaptchaService the controller holds (or held last); wiring says
\*   user            - what UserService.captchaService is: the Redis service
\*                     ("redis"), that same CaptchaService object ("shared") or
\*                     another CaptchaService object ("own")
\*   userStore       - the Map of that other object
\*   instance        - whether CaptchaService.instance is that object of the
\*                     controller ("ctl") or null ("none")
\*   cleanupInterval - whether the object's setInterval timer is running
\* Both constructors read CAPTCHA_USE_REDIS; new CaptchaService() hands out
\* the one instance.
WiringOf(e) ==
  IF e.CAPTCHA_USE_REDIS = "true"
    THEN [user |-> "redis", userStore |-> <<>>, instance |-> "none", cleanupInterval |-> FALSE]
    ELSE [user |-> "shared", userStore |-> <<>>, instance |-> "ctl", cleanupInterval |-> TRUE]

InitAudited(cfgs, envs, on) ==
  /\ audit = [on |-> on, cmp |-> <<>>]
  /\ now = 0
  /\ config \in cfgs
  /\ env \in envs
  /\ wiring = WiringOf(env)
  /\ useRedis = (env.CAPTCHA_USE_REDIS = "true")
  /\ captchaStore = <<>>
  /\ redis = <<>>
  /\ redisReady = TRUE
  /\ calls = [c \in Slots |-> Idle]
  /\ last = NoCall
  /\ issued = {}
  /\ track = <<>>

InitWith(cfgs, envs) == InitAudited(cfgs, envs, FALSE)

Init == InitWith(ConfigSpace, EnvSpace)

\* time passes; Redis drops the keys that have expired
Tick ==
  /\ now < MaxTicks * TickMs
  /\ now' = now + TickMs
  /\ redis' = redisExpire(redis, now')
  /\ last' = NoCall
  /\ track' = TrackTick(now')
  /\ UNCHANGED <<config, env, useRedis, captchaStore, redisReady, calls, issued, audit, wiring>>

\* the id a challenge call returned, if it returned one
MintedBy(res, via) ==
  IF res.thrown THEN {}
  ELSE IF via = "service" THEN {res.value.id}
  ELSE IF res.value.status = 200 THEN {res.value.data.captchaId}
  ELSE {}

\* captchaService.generateCaptcha(type, options) on the in-memory service
Generate(type, options, r) ==
  /\ ~useRedis
  /\ Cardinality(issued) < MaxGen
  /\ \E captcha \in renderByType(type, localSize(config, options)) :
       LET out == generateCaptcha(captchaStore, now, config, type, options, r, captcha)
       IN /\ captchaStore' = out.store
          /\ last' = Call("generateCaptcha", "service", NoId, NoInput, type, out.res)
          /\ issued' = issued \cup MintedBy(out.res, "service")
          /\ track' = TrackChallenge(MintedBy(out.res, "service"), out.store, NoId)
  /\ UNCHANGED <<now, config, env, audit, wiring, useRedis, redis, redisReady, calls>>

\* captchaService.verifyCaptcha(captchaId, userInput) on the in-memory service
Verify(captchaId, userInput) ==
  /\ ~useRedis
  /\ LET out == verifyCaptcha(captchaStore, now, env, captchaId, userInput)
     IN /\ captchaStore' = out.store
        /\ last' = Call("verifyCaptcha", "service", captchaId, userInput, "none", out.res)
        /\ track' = TrackVerify(captchaId, out.res, TRUE)
        /\ audit' = Audit(captchaId, out.res)
  /\ UNCHANGED <<now, config, env, wiring, useRedis, redis, redisReady, calls, issued>>

\* captchaService.refreshCaptcha(captchaId, type, options) on the in-memory service
Refresh(captchaId, type, options, r) ==
  /\ ~useRedis
  /\ Cardinality(issued) < MaxGen
  /\ \E captcha \in renderByType(type, localSize(config, options)) :
       LET out == refreshCaptcha(captchaStore, now, config, captchaId, type, options, r, captcha)
       IN /\ captchaStore' = out.store
          /\ last' = Call("refreshCaptcha", "service", captchaId, NoInput, type, out.res)
          /\ issued' = issued \cup MintedBy(out.res, "service")
          /\ track' = TrackChallenge(MintedBy(out.res, "service"), out.store, captchaId)
  /\ UNCHANGED <<now, config, env, audit, wiring, useRedis, redis, redisReady, calls>>

\* the setInterval callback of the constructor fires
CleanupTimer ==
  /\ wiring.cleanupInterval
  /\ captchaStore' = cleanup(captchaStore, now)
  /\ last' = Call("cleanup", "timer", NoId, NoInput, "none", Returned([none |-> TRUE]))
  /\ UNCHANGED <<now, config, env, audit, wiring, useRedis, redis, redisReady, calls, issued, track>>

\* captchaService.cleanupExpiredCaptchas() on the in-memory service
CleanupExpired ==
  /\ ~useRedis
  /\ LET out == cleanupExpiredCaptchas(captchaStore, now)
     IN /\ captchaStore' = out.store
        /\ last' = Call("cleanupExpiredCaptchas", "service", NoId, NoInput, "none", out.res)
  /\ UNCHANGED <<now, config, env, audit, wiring, useRedis, redis, redisReady, calls, issued, track>>

\* captchaService.getStats() on the in-memory service
GetStats ==
  /\ ~useRedis
  /\ last' = Call("getStats", "service", NoId, NoInput, "none",
                  Returned(getStats(captchaStore, now)))
  /\ UNCHANGED <<now, config, env, audit, wiring, useRedis, captchaStore, redis, redisReady, calls,
                 issued, track>>

\* GET /api/captcha/generate with the in-memory service bound
CtlGenerate(type, mathExpr, options, r) ==
  /\ ~useRedis
  /\ Cardinality(issued) < MaxGen
  /\ \E captcha \in renderByType(ctlRoute(type, mathExpr), localSize(config, options)) :
       LET out == ctlGenerateCaptcha(captchaStore, now, config, type, mathExpr, options, r, captcha)
       IN /\ captchaStore' = out.store
          /\ last' = Call("generateCaptcha", "controller", NoId, NoInput, type, out.res)
          /\ issued' = issued \cup MintedBy(out.res, "controller")
          /\ track' = TrackChallenge(MintedBy(out.res, "controller"), out.store, NoId)
  /\ UNCHANGED <<now, config, env, audit, wiring, useRedis, redis, redisReady, calls>>

\* the old record the refresh endpoint's branch deletes
ctlRefreshOld(captchaId, type, mathExpr) ==
  IF ctlRoute(type, mathExpr) \in {"math", "numeric"} THEN NoId ELSE captchaId

\* POST /api/captcha/refresh with the in-memory service bound
CtlRefresh(captchaId, type, mathExpr, options, r) ==
  /\ ~useRedis
  /\ Cardinality(issued) < MaxGen
  /\ \E captcha \in renderByType(ctlRoute(type, mathExpr), localSize(config, options)) :
       LET out == ctlRefreshCaptcha(captchaStore, now, config, captchaId, type, mathExpr,
                                    options, r, captcha)
       IN /\ captchaStore' = out.store
          /\ last' = Call("refreshCaptcha", "controller", captchaId, NoInput, type, out.res)
          /\ issued' = issued \cup MintedBy(out.res, "controller")
          /\ track' = TrackChallenge(MintedBy(out.res, "controller"), out.store,
                                     ctlRefreshOld(captchaId, type, mathExpr))
  /\ UNCHANGED <<now, config, env, audit, wiring, useRedis, redis, redisReady, calls>>

\* the response a finished call hands back: the service's result, or the
\* controller's HTTP response built from it
Respond(via, res, failCode) == IF via = "controller" THEN ctlChallengeResponse(res, failCode) ELSE res

\* captchaService.generateCaptcha(type, options) on the Redis service: one
\* stretch of code up to the SETEX it sends
RGenerate(type, options, r) ==
  /\ useRedis
  /\ Cardinality(issued) < MaxGen
  /\ \E captcha \in renderByType(type, redisSize(config, options)) :
       LET out == redisGenerateCaptcha(redis, now, redisReady, config, type, options, r, captcha)
       IN /\ redis' = out.store
          /\ last' = Call("generateCaptcha", "service", NoId, NoInput, type, out.res)
          /\ issued' = issued \cup MintedBy(out.res, "service")
          /\ track' = TrackChallenge(MintedBy(out.res, "service"), RecordsOf(out.store), NoId)
  /\ UNCHANGED <<now, config, env, audit, wiring, useRedis, captchaStore, redisReady, calls>>

\* verifyCaptcha(captchaId, userInput) on the Redis service, up to the GET it sends
RVerifyStart(c, captchaId, userInput) ==
  /\ useRedis
  /\ calls[c] = Idle
  /\ IF devBypass(env, captchaId, userInput)
       THEN /\ last' = Call("verifyCaptcha", "service", captchaId, userInput, "none",
                            VerifyResult(TRUE, "none", "ok-test-mode", -1))
            /\ track' = TrackVerify(captchaId, VerifyResult(TRUE, "none", "ok-test-mode", -1),
                                    TRUE)
            /\ calls' = calls
     ELSE IF ~isReady(redisReady)
       THEN /\ last' = Call("verifyCaptcha", "service", captchaId, userInput, "none", Thrown)
            /\ track' = TrackVerify(captchaId, Thrown, TRUE)
            /\ calls' = calls
     ELSE /\ calls' = [calls EXCEPT ![c] = [pc |-> "afterGet", op |-> "verifyCaptcha",
                                            via |-> "service", id |-> captchaId,
                                            input |-> userInput, type |-> "none",
                                            options |-> NoOptions,
                                            info |-> redisGet(redis, captchaId), ttl |-> -2]]
          /\ last' = NoCall
          /\ track' = track
  /\ UNCHANGED <<now, config, env, audit, wiring, useRedis, captchaStore, redis, redisReady, issued>>

\* verifyCaptcha resumes with the record GET returned: it returns, after
\* sending a DEL where the code has one, or sends TTL
RVerifyAfterGet(c) ==
  /\ calls[c] # Idle
  /\ calls[c].pc = "afterGet"
  /\ LET d == redisVerifyDecide(calls[c].info, now, calls[c].input)
     IN IF d.next = "ttl"
          THEN /\ calls' = [calls EXCEPT ![c] = [@ EXCEPT !.pc = "afterTtl", !.info = d.info,
                                                          !.ttl = redisTtl(redis, now, calls[c].id)]]
               /\ UNCHANGED <<redis, last, track, audit>>
          ELSE /\ calls' = [calls EXCEPT ![c] = Idle]
               /\ redis' = IF d.deletes THEN redisDel(redis, calls[c].id) ELSE redis
               /\ last' = Call("verifyCaptcha", "service", calls[c].id, calls[c].input,
                               "none", d.res)
               /\ track' = TrackVerify(calls[c].id, d.res, TRUE)
               /\ audit' = Audit(calls[c].id, d.res)
  /\ UNCHANGED <<now, config, env, wiring, useRedis, captchaStore, redisReady, issued>>

\* verifyCaptcha resumes with the TTL: it writes the counted record back when
\* the TTL is positive and returns CAPTCHA_INVALID
RVerifyAfterTtl(c) ==
  /\ calls[c] # Idle
  /\ calls[c].pc = "afterTtl"
  /\ redis' = IF calls[c].ttl > 0
                THEN redisSet(redis, now, calls[c].id, calls[c].info, calls[c].ttl)
                ELSE redis
  /\ last' = Call("verifyCaptcha", "service", calls[c].id, calls[c].input, "none",
                  VerifyResult(FALSE, "CAPTCHA_INVALID", "wrong",
                               calls[c].info.maxAttempts - calls[c].info.attempts))
  /\ track' = TrackVerify(calls[c].id, VerifyResult(FALSE, "CAPTCHA_INVALID", "wrong", -1),
                          calls[c].ttl > 0)
  /\ audit' = Audit(calls[c].id, VerifyResult(FALSE, "CAPTCHA_INVALID", "wrong", -1))
  /\ calls' = [calls EXCEPT ![c] = Idle]
  /\ UNCHANGED <<now, config, env, wiring, useRedis, captchaStore, redisReady, issued>>

\* refreshCaptcha(captchaId, type, options) on the Redis service, or the
\* refresh endpoint bound to it, up to the first command it sends: the DEL of
\* the old key, or without one the SETEX of generateCaptcha
RRefreshStart(c, via, captchaId, type, mathExpr, options, r) ==
  /\ useRedis
  /\ calls[c] = Idle
  /\ Cardinality(issued) < MaxGen
  /\ via = "service" => ~mathExpr
  /\ LET route == IF via = "controller" THEN ctlRoute(type, mathExpr) ELSE type
         viaRefresh == via = "service" \/ route \notin {"math", "numeric"}
     IN IF viaRefresh /\ captchaId # NoId /\ isReady(redisReady)
          THEN /\ redis' = redisDel(redis, captchaId)
               /\ calls' = [calls EXCEPT ![c] = [pc |-> "afterDel", op |-> "refreshCaptcha",
                                                 via |-> via, id |-> captchaId,
                                                 input |-> NoInput, type |-> type,
                                                 options |-> options, info |-> Null,
                                                 ttl |-> -2]]
               /\ last' = NoCall
               /\ track' = TrackChallenge({}, <<>>, captchaId)
               /\ UNCHANGED issued
          ELSE \E captcha \in renderByType(route, redisSize(config, options)) :
                 LET out == redisGenerateCaptcha(redis, now, redisReady, config, route,
                                                 options, r, captcha)
                     res == Respond(via, out.res, "CAPTCHA_REFRESH_FAILED")
                 IN /\ redis' = out.store
                    /\ last' = Call("refreshCaptcha", via, captchaId, NoInput, type, res)
                    /\ issued' = issued \cup MintedBy(res, via)
                    /\ track' = TrackChallenge(MintedBy(res, via), RecordsOf(out.store), NoId)
                    /\ calls' = calls
  /\ UNCHANGED <<now, config, env, audit, wiring, useRedis, captchaStore, redisReady>>

\* refreshCaptcha resumes after the DEL and runs generateCaptcha
RRefreshAfterDel(c, r) ==
  /\ calls[c] # Idle
  /\ calls[c].pc = "afterDel"
  /\ \E captcha \in renderByType(calls[c].type, redisSize(config, calls[c].options)) :
       LET out == redisGenerateCaptcha(redis, now, redisReady, config, calls[c].type,
                                       calls[c].options, r, captcha)
           res == Respond(calls[c].via, out.res, "CAPTCHA_REFRESH_FAILED")
       IN /\ redis' = out.store
          /\ last' = Call("refreshCaptcha", calls[c].via, calls[c].id, NoInput,
                          calls[c].type, res)
          /\ issued' = issued \cup MintedBy(res, calls[c].via)
          /\ track' = TrackChallenge(MintedBy(res, calls[c].via), RecordsOf(out.store), NoId)
  /\ calls' = [calls EXCEPT ![c] = Idle]
  /\ UNCHANGED <<now, config, env, audit, wiring, useRedis, captchaStore, redisReady>>

\* the environment's random suffix does not repeat within one millisecond
FreshSuffix(r) == generateCaptchaId(now, r) \notin issued

\* ids a caller can name: the ones handed out, and the development test id
VerifyIds == issued \cup {DevTestId}

MemoryNext ==
  \/ \E type \in Types, options \in OptionsSpace, r \in RandSuffix :
       FreshSuffix(r) /\ Generate(type, options, r)
  \/ \E captchaId \in VerifyIds, userInput \in UserInputs : Verify(captchaId, userInput)
  \/ \E captchaId \in VerifyIds \cup {NoId}, type \in Types, options \in OptionsSpace,
        r \in RandSuffix :
       FreshSuffix(r) /\ Refresh(captchaId, type, options, r)
  \/ CleanupTimer
  \/ CleanupExpired
  \/ GetStats
  \/ \E type \in Types, mathExpr \in BOOLEAN, options \in CtlOptionsSpace, r \in RandSuffix :
       FreshSuffix(r) /\ CtlGenerate(type, mathExpr, options, r)
  \/ \E captchaId \in VerifyIds \cup {NoId}, type \in Types, mathExpr \in BOOLEAN,
        options \in CtlOptionsSpace, r \in RandSuffix :
       FreshSuffix(r) /\ CtlRefresh(captchaId, type, mathExpr, options, r)

\* a started call of the Redis service runs on
RedisResume ==
  \/ \E c \in Slots : RVerifyAfterGet(c)
  \/ \E c \in Slots : RVerifyAfterTtl(c)
  \/ \E c \in Slots, r \in RandSuffix : FreshSuffix(r) /\ RRefreshAfterDel(c, r)

\* a caller starts a call of the Redis service in slot c
RedisStart(c) ==
  \/ \E type \in Types, options \in OptionsSpace, r \in RandSuffix :
       FreshSuffix(r) /\ RGenerate(type, options, r)
  \/ \E captchaId \in VerifyIds, userInput \in UserInputs : RVerifyStart(c, captchaId, userInput)
  \/ \E via \in {"service"}, captchaId \in VerifyIds \cup {NoId}, type \in Types,
        mathExpr \in BOOLEAN, options \in OptionsSpace, r \in RandSuffix :
       FreshSuffix(r) /\ RRefreshStart(c, via, captchaId, type, mathExpr, options, r)

\* calls are made one after another: a call starts when none is in flight
Next ==
  \/ Tick
  \/ AllIdle /\ MemoryNext
  \/ AllIdle /\ RedisStart(1)
  \/ RedisResume

Spec == Init /\ [][Next]_vars

\* the in-memory service alone
InitMemory == InitWith(ConfigSpace, {e \in EnvSpace : e.CAPTCHA_USE_REDIS = "false"})

NextMemory ==
  \/ Tick
  \/ MemoryNext

SpecMemory == InitMemory /\ [][NextMemory]_vars

\* the Redis service with calls in flight together, in one server instance or
\* in several instances sharing the Redis (the deployment the service is
\* written for): a call may start while others wait for their replies, and
\* the calls resume in any order
InitConc == InitWith(ConfigSpace, {e \in EnvSpace : /\ e.CAPTCHA_USE_REDIS = "true"
                                                      /\ e.NODE_ENV = "production"})

\* what the concurrent callers pass: a wrong guess and a right one, and the
\* options of a one-second challenge
ConcInputs == {[i \in 1..MaxLen |-> "b"], [i \in 1..MaxLen |-> "a"]}
ConcOptions == [NoOptions EXCEPT !.expireTime = 1, !.length = MaxLen]

NextConc ==
  \/ Tick
  \/ \E r \in RandSuffix : issued = {} /\ RGenerate("default", ConcOptions, r)
  \/ \E c \in Slots, captchaId \in issued, userInput \in ConcInputs :
       RVerifyStart(c, captchaId, userInput)
  \/ \E c \in Slots, captchaId \in issued, r \in RandSuffix :
       FreshSuffix(r) /\ RRefreshStart(c, "service", captchaId, "default", FALSE, ConcOptions, r)
  \/ RedisResume

SpecConc == InitConc /\ [][NextConc]_vars

\* generate and verify with the random suffix left to Math.random: nothing in
\* generateCaptchaId or generateCaptcha keeps StringUtils.generateRandom from
\* returning, within one millisecond, a string it returned before
IdKinds == {"default", "math"}

NextIds ==
  \/ Tick
  \/ \E type \in IdKinds, r \in RandSuffix : Generate(type, NoOptions, r)
  \/ \E type \in IdKinds, r \in RandSuffix : AllIdle /\ RGenerate(type, NoOptions, r)
  \/ \E captchaId \in issued, userInput \in ConcInputs : Verify(captchaId, userInput)
  \/ \E captchaId \in issued, userInput \in ConcInputs :
       AllIdle /\ RVerifyStart(1, captchaId, userInput)
  \/ RVerifyAfterGet(1)
  \/ RVerifyAfterTtl(1)

SpecIds == Init /\ [][NextIds]_vars

(* ------------------ rebinding and the Redis connection ----------------- *)
\* CaptchaController.switchToRedis: a controller on the in-memory service
\* replaces it by a new CaptchaRedisService; the CaptchaService object it
\* held stays CaptchaService.instance, with its Map and its timer
SwitchToRedis ==
  /\ AllIdle
  /\ useRedis' = TRUE
  /\ last' = Call("switchToRedis", "controller", NoId, NoInput, "none", Thrown)
  /\ UNCHANGED <<now, config, env, audit, wiring, captchaStore, redis, redisReady, calls,
                 issued, track>>

\* new CaptchaService() called by a controller on the Redis service: the
\* constructor returns CaptchaService.instance when there is one; otherwise
\* the object is new, with an empty Map and a running timer, and becomes the
\* instance.  A UserService that held the object the controller held before
\* keeps holding it, now apart from the controller's.
newCaptchaService(w, store) ==
  IF w.instance = "ctl" THEN [wiring |-> w, store |-> store]
  ELSE [wiring |-> [w EXCEPT !.instance = "ctl", !.cleanupInterval = TRUE,
                             !.user = IF @ = "shared" THEN "own" ELSE @,
                             !.userStore = IF w.user = "shared" THEN store ELSE @],
        store |-> <<>>]

\* CaptchaController.switchToMemory: a controller on the Redis service
\* replaces it by new CaptchaService()
SwitchToMemory ==
  /\ AllIdle
  /\ useRedis' = FALSE
  /\ LET made == newCaptchaService(wiring, captchaStore)
     IN /\ wiring' = IF useRedis THEN made.wiring ELSE wiring
        /\ captchaStore' = IF useRedis THEN made.store ELSE captchaStore
  /\ last' = Call("switchToMemory", "controller", NoId, NoInput, "none", Thrown)
  /\ UNCHANGED <<now, config, env, audit, redis, redisReady, calls, issued, track>>

\* the Redis connection drops or comes back (client.status leaves or reaches
\* 'ready') between calls
RedisStatusChange ==
  /\ AllIdle
  /\ redisReady' = ~redisReady
  /\ last' = NoCall
  /\ UNCHANGED <<now, config, env, audit, wiring, useRedis, captchaStore, redis, calls, issued, track>>

\* what the callers pass here: the development test code and a wrong guess
BindInputs == {DevTestCode, [i \in 1..MaxLen |-> "b"]}

\* a controller taking requests on the service it is bound to, with the
\* switch operations called and the Redis connection coming and going
NextBind ==
  \/ Tick
  \/ \E r \in RandSuffix : issued = {} /\ CtlGenerate("default", FALSE, NoOptions, r)
  \/ \E captchaId \in issued \cup {DevTestId}, userInput \in BindInputs :
       Verify(captchaId, userInput)
  \/ \E r \in RandSuffix : AllIdle /\ issued = {} /\ RGenerate("default", NoOptions, r)
  \/ \E captchaId \in issued \cup {DevTestId}, userInput \in BindInputs :
       AllIdle /\ RVerifyStart(1, captchaId, userInput)
  \/ \E captchaId \in issued, r \in RandSuffix :
       AllIdle /\ FreshSuffix(r)
               /\ RRefreshStart(1, "controller", captchaId, "default", FALSE, NoOptions, r)
  \/ RedisResume
  \/ SwitchToRedis
  \/ SwitchToMemory
  \/ RedisStatusChange

SpecBind == Init /\ [][NextBind]_vars

(* ------------------------------- health ------------------------------- *)
\* the Redis command of a health check that raises, if one does
HealthFaults == {"none", "ping", "set", "get", "del"}

\* the key and value the health check writes
healthTestKey(t) == <<t, -1>>
healthTestValue(t) == [test |-> TRUE, timestamp |-> t]
HealthTestTtl == 10

\* RedisService.healthCheck: unhealthy when not ready or when PING raises
redisServiceHealthCheck(ready, raises) ==
  IF ~isReady(ready) \/ raises = "ping" THEN "unhealthy" ELSE "healthy"

\* CaptchaRedisService.healthCheck: the set / get / del round trip on a test
\* key; whatever raises is caught
healthCheck(rs, t, ready, raises) ==
  LET written == redisSet(rs, t, healthTestKey(t), healthTestValue(t), HealthTestTtl)
      retrieved == redisGet(written, healthTestKey(t))
  IN IF redisServiceHealthCheck(ready, raises) # "healthy" \/ raises = "set"
       THEN [res |-> Returned([status |-> "unhealthy"]), store |-> rs]
     ELSE IF raises \in {"get", "del"}
       THEN [res |-> Returned([status |-> "unhealthy"]), store |-> written]
     ELSE [res |-> Returned([status |-> IF retrieved # Null /\ retrieved.test
                                          THEN "healthy" ELSE "unhealthy"]),
           store |-> redisDel(written, healthTestKey(t))]

\* CaptchaController.getHealthStatus (GET /api/captcha/health): it reads
\* captchaService.getStats() without awaiting it and answers healthy; on the
\* Redis service getStats returns a promise, whose fields read as undefined
ctlGetHealthStatus(bound) == Http(200, "OK", [status |-> "healthy"])

\* captchaService.healthCheck() on the Redis service
RHealthCheck(raises) ==
  /\ useRedis
  /\ AllIdle
  /\ LET out == healthCheck(redis, now, redisReady, raises)
     IN /\ redis' = out.store
        /\ last' = Call("healthCheck", "service", NoId, NoInput, raises, out.res)
  /\ UNCHANGED <<now, config, env, audit, wiring, useRedis, captchaStore, redisReady, calls, issued, track>>

\* GET /api/captcha/health on the controller, whichever service is bound
CtlHealth ==
  /\ AllIdle
  /\ last' = Call("getHealthStatus", "controller", NoId, NoInput, "none",
                  ctlGetHealthStatus(useRedis))
  /\ UNCHANGED <<now, config, env, audit, wiring, useRedis, captchaStore, redis, redisReady, calls,
                 issued, track>>

NextHealth ==
  \/ Tick
  \/ \E r \in RandSuffix : issued = {} /\ CtlGenerate("default", FALSE, NoOptions, r)
  \/ \E r \in RandSuffix : AllIdle /\ issued = {} /\ RGenerate("default", NoOptions, r)
  \/ RedisStatusChange
  \/ \E raises \in HealthFaults : RHealthCheck(raises)
  \/ CtlHealth

SpecHealth == Init /\ [][NextHealth]_vars

(* ----------------------- refresh when DEL raises ----------------------- *)
\* marks a refresh call whose DEL of the old key was rejected by Redis
DelRaises == <<"DEL raises">>

\* refreshCaptcha(captchaId, type, options) on the Redis service when
\* redisService.del rejects: del logs and rethrows, refreshCaptcha awaits it
\* outside any try, so the call ends there and generateCaptcha is not reached
RRefreshDelRaises(via, captchaId, type) ==
  /\ useRedis
  /\ AllIdle
  /\ captchaId # NoId
  /\ isReady(redisReady)
  /\ last' = Call("refreshCaptcha", via, captchaId, DelRaises, type,
                  Respond(via, Thrown, "CAPTCHA_REFRESH_FAILED"))
  /\ UNCHANGED <<now, config, env, audit, wiring, useRedis, captchaStore, redis, redisReady, calls,
                 issued, track>>

\* generate and refresh of default challenges on either service, with a DEL
\* that can be rejected while the connection stays ready
NextRefresh ==
  \/ Tick
  \/ \E r \in RandSuffix : issued = {} /\ Generate("default", NoOptions, r)
  \/ \E r \in RandSuffix : AllIdle /\ issued = {} /\ RGenerate("default", NoOptions, r)
  \/ \E captchaId \in issued, r \in RandSuffix :
       FreshSuffix(r) /\ Refresh(captchaId, "default", NoOptions, r)
  \/ \E captchaId \in issued, via \in {"service", "controller"}, r \in RandSuffix :
       AllIdle /\ FreshSuffix(r)
               /\ RRefreshStart(1, via, captchaId, "default", FALSE, NoOptions, r)
  \/ \E r \in RandSuffix : FreshSuffix(r) /\ RRefreshAfterDel(1, r)
  \/ \E captchaId \in issued, via \in {"service", "controller"} :
       RRefreshDelRaises(via, captchaId, "default")

SpecRefresh == Init /\ [][NextRefresh]_vars

(* ------------------- the two services side by side -------------------- *)
\* CaptchaRedisService.verifyCaptcha run from call to return with no other
\* command in between: GET, then DEL, or TTL and SETEX
redisVerifyCaptcha(rs, t, e, ready, captchaId, userInput) ==
  IF devBypass(e, captchaId, userInput)
    THEN [res |-> VerifyResult(TRUE, "none", "ok-test-mode", -1), store |-> rs]
  ELSE IF ~isReady(ready) THEN [res |-> Thrown, store |-> rs]
  ELSE LET d == redisVerifyDecide(redisGet(rs, captchaId), t, userInput)
           ttl == redisTtl(rs, t, captchaId)
       IN IF d.next = "ttl"
            THEN [res |-> d.res,
                  store |-> IF ttl > 0 THEN redisSet(rs, t, captchaId, d.info, ttl) ELSE rs]
            ELSE [res |-> d.res,
                  store |-> IF d.deletes THEN redisDel(rs, captchaId) ELSE rs]

\* CaptchaRedisService.refreshCaptcha run from call to return
redisRefreshCaptcha(rs, t, ready, cfg, captchaId, type, options, r, captcha) ==
  redisGenerateCaptcha(IF captchaId # NoId /\ isReady(ready) THEN redisDel(rs, captchaId)
                       ELSE rs,
                       t, ready, cfg, type, options, r, captcha)

\* options of the side-by-side run: none, the expiry the configuration has,
\* and with it a maxAttempts of 1
PairOptions == {NoOptions, [NoOptions EXCEPT !.expireTime = 1],
                [NoOptions EXCEPT !.expireTime = 1, !.maxAttempts = 1]}

\* a CaptchaService and a CaptchaRedisService in one process, both starting empty
InitPair == InitWith(ConfigSpace, EnvSpace)

\* what the two services returned to the same call
Both(memory, viaRedis) == Returned([memory |-> memory, redis |-> viaRedis])

\* no record of either store reaches its expiry before t
NoneExpiresBy(t) ==
  /\ \A k \in DOMAIN captchaStore : ~(t >= captchaStore[k].expiresAt)
  /\ \A k \in DOMAIN redis : ~(t >= redis[k].value.expiresAt)

\* time passes while no record reaches its expiry
PairTick == NoneExpiresBy(now + TickMs) /\ Tick

\* the same generateCaptcha call made to both services (same instant, same
\* random suffix, same rendered answer)
PairGenerate(type, options, r) ==
  /\ Cardinality(issued) < MaxGen
  /\ localSize(config, options) = redisSize(config, options)
  /\ \E captcha \in renderByType(type, localSize(config, options)) :
       LET m == generateCaptcha(captchaStore, now, config, type, options, r, captcha)
           d == redisGenerateCaptcha(redis, now, redisReady, config, type, options, r, captcha)
       IN /\ captchaStore' = m.store
          /\ redis' = d.store
          /\ last' = Call("generateCaptcha", "pair", NoId, NoInput, type, Both(m.res, d.res))
          /\ issued' = issued \cup MintedBy(m.res, "service")
          /\ track' = TrackChallenge(MintedBy(m.res, "service"), m.store, NoId)
  /\ UNCHANGED <<now, config, env, audit, wiring, useRedis, redisReady, calls>>

\* the same verifyCaptcha call made to both services
PairVerify(captchaId, userInput) ==
  /\ LET m == verifyCaptcha(captchaStore, now, env, captchaId, userInput)
         d == redisVerifyCaptcha(redis, now, env, redisReady, captchaId, userInput)
     IN /\ captchaStore' = m.store
        /\ redis' = d.store
        /\ last' = Call("verifyCaptcha", "pair", captchaId, userInput, "none",
                        Both(m.res, d.res))
        /\ track' = TrackVerify(captchaId, m.res, TRUE)
        /\ audit' = Audit(captchaId, m.res)
  /\ UNCHANGED <<now, config, env, wiring, useRedis, redisReady, calls, issued>>

\* the same refreshCaptcha call made to both services
PairRefresh(captchaId, type, options, r) ==
  /\ Cardinality(issued) < MaxGen
  /\ localSize(config, options) = redisSize(config, options)
  /\ \E captcha \in renderByType(type, localSize(config, options)) :
       LET m == refreshCaptcha(captchaStore, now, config, captchaId, type, options, r, captcha)
           d == redisRefreshCaptcha(redis, now, redisReady, config, captchaId, type, options,
                                    r, captcha)
       IN /\ captchaStore' = m.store
          /\ redis' = d.store
          /\ last' = Call("refreshCaptcha", "pair", captchaId, NoInput, type,
                          Both(m.res, d.res))
          /\ issued' = issued \cup MintedBy(m.res, "service")
          /\ track' = TrackChallenge(MintedBy(m.res, "service"), m.store, captchaId)
  /\ UNCHANGED <<now, config, env, audit, wiring, useRedis, redisReady, calls>>

NextPair ==
  \/ PairTick
  \/ \E type \in IdKinds, options \in PairOptions, r \in RandSuffix :
       FreshSuffix(r) /\ PairGenerate(type, options, r)
  \/ \E captchaId \in VerifyIds, userInput \in ConcInputs \cup {DevTestCode} :
       PairVerify(captchaId, userInput)
  \/ \E captchaId \in issued, type \in IdKinds, options \in PairOptions, r \in RandSuffix :
       FreshSuffix(r) /\ PairRefresh(captchaId, type, options, r)

SpecPair == InitPair /\ [][NextPair]_vars

(* ------------------- what the end user is answered -------------------- *)
\* the body and status the end user receives
UserResponse(status, code, message) == [status |-> status, code |-> code, message |-> message]

\* CaptchaController.verifyCaptcha (POST /api/captcha/verify) answering from
\* the result res of captchaService.verifyCaptcha
ctlVerifyResponse(captchaId, captchaCode, res) ==
  IF captchaId = NoId THEN UserResponse(400, "CAPTCHA_ID_REQUIRED", "captcha-id-required")
  ELSE IF captchaCode \in {Undefined, NoInput}
    THEN UserResponse(400, "CAPTCHA_CODE_REQUIRED", "captcha-required")
  ELSE IF res.thrown THEN UserResponse(500, "CAPTCHA_VERIFICATION_FAILED", "internal-error")
  ELSE IF res.value.success THEN UserResponse(200, "OK", res.value.message)
  ELSE UserResponse(IF res.value.error \in {"CAPTCHA_NOT_FOUND", "CAPTCHA_EXPIRED"}
                      THEN 404 ELSE 400,
                    res.value.error, res.value.message)

\* UserController.getStatusCodeByErrorCode: codes outside the map get 500
getStatusCodeByErrorCode(errorCode) ==
  CASE errorCode = "VALIDATION_ERROR" -> 400
    [] errorCode = "USER_NOT_FOUND" -> 404
    [] OTHER -> 500

\* UserService.login / register up to the captcha check, as UserController
\* sends it: a refused captcha ends the request; "passed" stands for the
\* rest of the flow
authCaptchaResponse(res) ==
  IF res.thrown THEN UserResponse(500, "INTERNAL_ERROR", "internal-error")
  ELSE IF ~res.value.success
    THEN UserResponse(getStatusCodeByErrorCode("CAPTCHA_INVALID"), "CAPTCHA_INVALID",
                      res.value.message)
  ELSE UserResponse(200, "passed", "passed")

\* verify calls on the Redis service in flight together, with the comparing
\* calls counted per id
InitCount == InitAudited(ConfigSpace, {e \in EnvSpace : /\ e.CAPTCHA_USE_REDIS = "true"
                                                        /\ e.NODE_ENV = "production"}, TRUE)

NextCount ==
  \/ Tick
  \/ \E r \in RandSuffix : issued = {} /\ RGenerate("default", ConcOptions, r)
  \/ \E c \in Slots, captchaId \in issued, userInput \in ConcInputs :
       RVerifyStart(c, captchaId, userInput)
  \/ \E c \in Slots : RVerifyAfterGet(c)
  \/ \E c \in Slots : RVerifyAfterTtl(c)

SpecCount == InitCount /\ [][NextCount]_vars

(* ------------------------ the lifetime asked for ----------------------- *)
\* the options generate is called with here: none, and an expireTime of one
\* or two seconds
TtlOptions == {NoOptions, [NoOptions EXCEPT !.expireTime = 1],
               [NoOptions EXCEPT !.expireTime = 2]}

\* a process whose configuration sets no captcha.expireTime
InitTtl == InitWith([length : {1}, expireTime : {0}, maxAttempts : {0}], EnvSpace)

\* generateCaptcha(type, options) of the bound service, or GET
\* /api/captcha/generate answered by it; the call is recorded with its options
TtlGenerate(via, type, options, r) ==
  /\ AllIdle
  /\ Cardinality(issued) < MaxGen
  /\ \E captcha \in renderByType(type, IF useRedis THEN redisSize(config, options)
                                       ELSE localSize(config, options)) :
       LET viaRedis == redisGenerateCaptcha(redis, now, redisReady, config, type, options, r,
                                            captcha)
           local == IF via = "controller"
                      THEN ctlGenerateCaptcha(captchaStore, now, config, type, FALSE, options,
                                              r, captcha)
                      ELSE generateCaptcha(captchaStore, now, config, type, options, r, captcha)
           res == IF useRedis THEN Respond(via, viaRedis.res, "CAPTCHA_GENERATION_FAILED")
                  ELSE local.res
       IN /\ redis' = IF useRedis THEN viaRedis.store ELSE redis
          /\ captchaStore' = IF useRedis THEN captchaStore ELSE local.store
          /\ last' = Call("generateCaptcha", via, NoId, options, type, res)
          /\ issued' = issued \cup MintedBy(res, via)
          /\ track' = TrackChallenge(MintedBy(res, via),
                                     IF useRedis THEN RecordsOf(viaRedis.store) ELSE local.store,
                                     NoId)
  /\ UNCHANGED <<now, config, env, audit, wiring, useRedis, redisReady, calls>>

\* generate calls on the bound service, with and without an expireTime
\* option, and through the controller, whose options carry none
NextTtl ==
  \/ Tick
  \/ \E type \in IdKinds, options \in TtlOptions, r \in RandSuffix :
       FreshSuffix(r) /\ TtlGenerate("service", type, options, r)
  \/ \E type \in IdKinds, options \in CtlOptionsSpace, r \in RandSuffix :
       FreshSuffix(r) /\ TtlGenerate("controller", type, options, r)

SpecTtl == InitTtl /\ [][NextTtl]_vars

(* ------------------- the sweep and stats endpoints -------------------- *)
\* client.keys(CACHE_KEYS.CAPTCHA + '*')
redisKeys(rs) == DOMAIN rs

\* CaptchaRedisService.cleanup: it counts the listed keys whose TTL query
\* answers -2 and deletes nothing
redisCleanup(rs, t, ready) ==
  IF ~isReady(ready) THEN Returned([cleanedCount |-> 0])
  ELSE Returned([cleanedCount |-> Cardinality({k \in redisKeys(rs) : redisTtl(rs, t, k) = -2})])

\* CaptchaController.cleanupExpiredCaptchas: it calls
\* captchaService.cleanupExpiredCaptchas(), a method CaptchaRedisService
\* does not have (its sweep is named cleanup), so on the Redis service the
\* call raises a TypeError and the catch answers 500
ctlCleanupExpiredCaptchas(bound, store, t) ==
  IF bound
    THEN [res |-> Http(500, "INTERNAL_ERROR", NoData), store |-> store]
    ELSE LET out == cleanupExpiredCaptchas(store, t)
         IN [res |-> Http(200, "OK", [cleanedCount |-> out.res.value.cleanedCount]),
             store |-> out.store]

\* JSON.stringify of a pending promise: an object without fields
EmptyObject == [e \in {} |-> e]

\* CaptchaController.getCaptchaStats: refused in production; otherwise the
\* value of captchaService.getStats(), not awaited, is the data
ctlGetCaptchaStats(e, bound, store, t) ==
  IF e.NODE_ENV = "production" THEN Http(403, "FEATURE_DISABLED_IN_PRODUCTION", NoData)
  ELSE IF bound THEN Http(200, "OK", EmptyObject)
  ELSE Http(200, "OK", getStats(store, t))

\* router.get('/stats'): outside development the route answers 403 itself
statsRoute(e, bound, store, t) ==
  IF e.NODE_ENV # "development" THEN Http(403, "FORBIDDEN", NoData)
  ELSE ctlGetCaptchaStats(e, bound, store, t)

\* the controller's sweep request, on whichever service is bound
CtlCleanup ==
  /\ AllIdle
  /\ LET out == ctlCleanupExpiredCaptchas(useRedis, captchaStore, now)
     IN /\ captchaStore' = out.store
        /\ last' = Call("cleanupExpiredCaptchas", "controller", NoId, NoInput, "none", out.res)
  /\ UNCHANGED <<now, config, env, audit, wiring, useRedis, redis, redisReady, calls, issued,
                 track>>

\* captchaService.cleanup() on the Redis service
RCleanup ==
  /\ useRedis
  /\ AllIdle
  /\ last' = Call("cleanup", "service", NoId, NoInput, "none",
                  redisCleanup(redis, now, redisReady))
  /\ UNCHANGED <<now, config, env, audit, wiring, useRedis, captchaStore, redis, redisReady,
                 calls, issued, track>>

\* GET /api/captcha/stats
CtlStats ==
  /\ AllIdle
  /\ last' = Call("getStats", "controller", NoId, NoInput, "none",
                  statsRoute(env, useRedis, captchaStore, now))
  /\ UNCHANGED <<now, config, env, audit, wiring, useRedis, captchaStore, redis, redisReady,
                 calls, issued, track>>

\* challenges issued on the bound service, with the sweep and the stats
\* requested through the service and through the controller
NextAdmin ==
  \/ Tick
  \/ \E type \in IdKinds, r \in RandSuffix :
       FreshSuffix(r) /\ CtlGenerate(type, FALSE, NoOptions, r)
  \/ \E type \in IdKinds, r \in RandSuffix :
       AllIdle /\ FreshSuffix(r) /\ RGenerate(type, ConcOptions, r)
  \/ CleanupExpired
  \/ CtlCleanup
  \/ RCleanup
  \/ GetStats
  \/ CtlStats

SpecAdmin == Init /\ [][NextAdmin]_vars

(* ---------------- the services of login and the controller ------------- *)
\* String.prototype.trim
RECURSIVE trimStart(_)
trimStart(s) == IF s # <<>> /\ Head(s) = " " THEN trimStart(Tail(s)) ELSE s

RECURSIVE trimEnd(_)
trimEnd(s) == IF s # <<>> /\ s[Len(s)] = " " THEN trimEnd(SubSeq(s, 1, Len(s) - 1)) ELSE s

trim(s) == trimEnd(trimStart(s))

\* LoginDto / RegisterDto: captchaCode is data.captchaCode?.trim(), captchaId
\* is passed on as it came
dtoCaptchaCode(captchaCode) == IF captchaCode = Undefined THEN Undefined ELSE trim(captchaCode)

\* the Map UserService.captchaService works on when it is a CaptchaService
userCaptchaStore == IF wiring.user = "own" THEN wiring.userStore ELSE captchaStore

\* POST /api/auth/login up to the captcha check: UserController.login builds
\* the LoginDto and UserService.login calls verifyCaptcha on its own service
Login(captchaId, captchaCode) ==
  /\ AllIdle
  /\ LET code == dtoCaptchaCode(captchaCode)
         out == IF wiring.user = "redis"
                  THEN redisVerifyCaptcha(redis, now, env, redisReady, captchaId, code)
                  ELSE verifyCaptcha(userCaptchaStore, now, env, captchaId, code)
     IN /\ redis' = IF wiring.user = "redis" THEN out.store ELSE redis
        /\ captchaStore' = IF wiring.user = "shared" THEN out.store ELSE captchaStore
        /\ wiring' = IF wiring.user = "own" THEN [wiring EXCEPT !.userStore = out.store]
                      ELSE wiring
        /\ last' = Call("login", "user", captchaId, captchaCode, "none", out.res)
        /\ track' = TrackVerify(captchaId, out.res, TRUE)
  /\ UNCHANGED <<now, config, env, audit, useRedis, redisReady, calls, issued>>

\* CaptchaService.destroy on the object the controller holds: the timer is
\* cleared and the Map emptied; the object stays where it is held
destroy(w, store) == [wiring |-> [w EXCEPT !.cleanupInterval = FALSE], store |-> <<>>]

\* CaptchaService.destroyInstance: destroy() on the instance, if there is
\* one, and CaptchaService.instance = null
DestroyInstance ==
  /\ AllIdle
  /\ LET gone == destroy(wiring, captchaStore)
     IN IF wiring.instance = "ctl"
          THEN /\ wiring' = [gone.wiring EXCEPT !.instance = "none"]
               /\ captchaStore' = gone.store
          ELSE UNCHANGED <<wiring, captchaStore>>
  /\ last' = Call("destroyInstance", "static", NoId, NoInput, "none", Returned([none |-> TRUE]))
  /\ UNCHANGED <<now, config, env, audit, useRedis, redis, redisReady, calls, issued, track>>

\* Application.initializeRedis when connect or the health check fails: the
\* catch sets process.env.CAPTCHA_USE_REDIS to 'false'.  The captcha
\* controller and the UserService were constructed when the routes were
\* required, before this runs
RedisStartFails ==
  /\ env.CAPTCHA_USE_REDIS = "true"
  /\ now = 0
  /\ issued = {}
  /\ AllIdle
  /\ env' = [env EXCEPT !.CAPTCHA_USE_REDIS = "false"]
  /\ redisReady' = FALSE
  /\ last' = Call("initializeRedis", "bootstrap", NoId, NoInput, "none", Returned([none |-> TRUE]))
  /\ UNCHANGED <<now, config, audit, wiring, useRedis, captchaStore, redis, calls, issued, track>>

\* what callers send as the code here: the test code, the test code with a
\* blank in front, the answer and a wrong guess
AuthInputs == {DevTestCode, <<" ">> \o DevTestCode, [i \in 1..MaxLen |-> "a"],
               [i \in 1..MaxLen |-> "b"]}

\* the captcha endpoints of the controller and the login of UserService side
\* by side, with the operations that change what the two are bound to
NextAuth ==
  \/ Tick
  \/ \E r \in RandSuffix : issued = {} /\ CtlGenerate("default", FALSE, NoOptions, r)
  \/ \E r \in RandSuffix : AllIdle /\ issued = {} /\ RGenerate("default", ConcOptions, r)
  \/ \E captchaId \in VerifyIds, userInput \in AuthInputs : Verify(captchaId, userInput)
  \/ \E captchaId \in VerifyIds, userInput \in AuthInputs :
       AllIdle /\ RVerifyStart(1, captchaId, userInput)
  \/ RVerifyAfterGet(1)
  \/ RVerifyAfterTtl(1)
  \/ \E captchaId \in VerifyIds, captchaCode \in AuthInputs : Login(captchaId, captchaCode)
  \/ SwitchToRedis
  \/ SwitchToMemory
  \/ DestroyInstance
  \/ RedisStartFails
  \/ RedisStatusChange

SpecAuth == Init /\ [][NextAuth]_vars

(* ------------------------- the cleanup timer --------------------------- *)
\* captchaService.destroy() called on the in-memory service that is bound
Destroy ==
  /\ ~useRedis
  /\ LET gone == destroy(wiring, captchaStore)
     IN /\ wiring' = gone.wiring
        /\ captchaStore' = gone.store
  /\ last' = Call("destroy", "service", NoId, NoInput, "none", Returned([none |-> TRUE]))
  /\ UNCHANGED <<now, config, env, audit, useRedis, redis, redisReady, calls, issued, track>>

\* a record created now passes its expiry while the clock still runs
ExpiresInTime == now + OrElse(config.expireTime, DefaultExpireTime) * SecMs < MaxTicks * TickMs

\* the in-memory service with its timer: challenges are generated and
\* verified, the service is destroyed, and callers go on using the object
\* they hold
NextSweep ==
  \/ Tick
  \/ \E type \in IdKinds, r \in RandSuffix :
       ExpiresInTime /\ Generate(type, NoOptions, r)
  \/ \E captchaId \in issued, userInput \in ConcInputs : Verify(captchaId, userInput)
  \/ CleanupTimer
  \/ Destroy
  \/ DestroyInstance

\* time keeps advancing, and the timer's callback runs whenever it is due
SpecSweep == InitMemory /\ [][NextSweep]_vars /\ WF_vars(Tick) /\ WF_vars(CleanupTimer)

(* ----------------------------- properties ----------------------------- *)
\* this step completes a verify call on id
VerifyReturns(id) == last'.op = "verifyCaptcha" /\ last'.id = id

\* the outcome a verify call returned
Outcome(res) == IF res.thrown THEN "thrown"
                ELSE IF res.value.success THEN "success" ELSE res.value.error

\* the completing verify call on id was answered from a TTL query that gave
\* nothing positive, so its count was not written back
TtlLost(id) ==
  \E c \in Slots : /\ calls[c].pc = "afterTtl"
                   /\ calls[c].id = id
                   /\ calls[c].ttl <= 0

\* C1: with calls made one after another and before expiry, on either
\* backend: the first verify on a generated id whose input lowercases to the
\* stored answer returns success and removes the record, and every verify on
\* the id after a successful one returns CAPTCHA_NOT_FOUND, whatever the input.
C1_SuccessThenNotFound ==
  [][\A id \in issued :
       VerifyReturns(id) =>
         /\ ( /\ track[id] = Fresh(track[id].max)
              /\ id \in StoreKeys
              /\ last'.input # Undefined
              /\ toLowerCase(last'.input) = Stored(id).text )
            => Outcome(last'.res) = "success" /\ id \notin StoreKeys'
         /\ track[id].tag = "consumed" => Outcome(last'.res) = "CAPTCHA_NOT_FOUND"]_vars

\* a verify on a generated id has succeeded, and a later verify on the id
\* came back CAPTCHA_NOT_FOUND
C1_Witness ==
  /\ last.op = "verifyCaptcha"
  /\ last.id \in issued
  /\ track[last.id].tag = "consumed"
  /\ Outcome(last.res) = "CAPTCHA_NOT_FOUND"

\* a guess that is a string and not the stored answer of id
WrongGuess(id, x) ==
  /\ x # Undefined
  /\ id \in StoreKeys => toLowerCase(x) # Stored(id).text

\* the verify call completing in this step is call number k of a run of
\* wrong guesses on the fresh id, in which no record expired and every count
\* was written back
WrongCall(id, k) ==
  /\ VerifyReturns(id)
  /\ track[id].tag = "run"
  /\ track[id].n + 1 = k
  /\ WrongGuess(id, last'.input)
  /\ ~TtlLost(id)

C3_ExpiredThenNotFound ==
  [][\A id \in issued :
       (~useRedis /\ VerifyReturns(id)) =>
         /\ track[id].tag = "owed" => Outcome(last'.res) = "CAPTCHA_EXPIRED"
         /\ track[id].tag = "gone" => Outcome(last'.res) = "CAPTCHA_NOT_FOUND"]_vars

\* C3 (amended): the next verify returns CAPTCHA_EXPIRED and removes the
\* record when the record is still stored, and CAPTCHA_NOT_FOUND when a sweep
\* removed it first; every verify after that returns CAPTCHA_NOT_FOUND.
C3_ExpiredUnlessSwept ==
  [][\A id \in issued :
       (~useRedis /\ VerifyReturns(id)) =>
         /\ track[id].tag = "owed" =>
              /\ Outcome(last'.res) = IF id \in StoreKeys THEN "CAPTCHA_EXPIRED"
                                      ELSE "CAPTCHA_NOT_FOUND"
              /\ id \notin StoreKeys'
         /\ track[id].tag = "gone" => Outcome(last'.res) = "CAPTCHA_NOT_FOUND"]_vars

\* an expired record was verified twice: the second call came back
\* CAPTCHA_NOT_FOUND
C3_Witness ==
  /\ ~useRedis
  /\ last.op = "verifyCaptcha"
  /\ last.id \in issued
  /\ track[last.id].tag = "gone"
  /\ Outcome(last.res) = "CAPTCHA_NOT_FOUND"

\* the outcome verifyCaptcha(id, x) of the bound service would return, called
\* now with no other call in flight
VerifyOutcomeNow(id, x) ==
  IF useRedis
    THEN IF devBypass(env, id, x) THEN "success"
         ELSE Outcome(redisVerifyDecide(redisGet(redis, id), now, x).res)
    ELSE Outcome(verifyCaptcha(captchaStore, now, env, id, x).res)

SupportedKinds == {"default", "math", "numeric"}

\* C4: a refresh of kind default, math or numeric that names a generated id,
\* through the service method or the controller's endpoint, returns another
\* id, and after it verify on the old id returns CAPTCHA_NOT_FOUND whatever
\* the input.
C4_RefreshInvalidatesOld ==
  ( /\ last.op = "refreshCaptcha"
    /\ last.id \in issued
    /\ last.type \in SupportedKinds
    /\ MintedBy(last.res, last.via) # {} )
  => /\ last.id \notin MintedBy(last.res, last.via)
     /\ \A x \in UserInputs : VerifyOutcomeNow(last.id, x) = "CAPTCHA_NOT_FOUND"

\* this step completes a sweep of the in-memory store
SweepReturns == ~useRedis /\ last'.op \in {"cleanup", "cleanupExpiredCaptchas"}

\* the sweep completing in this step removed exactly the records under the
\* keys gone, left the others as they were, and counted what it removed
SweepRemoves(gone) ==
  /\ captchaStore' = [k \in (DOMAIN captchaStore) \ gone |-> captchaStore[k]]
  /\ last'.op = "cleanupExpiredCaptchas" =>
       /\ ~last'.res.thrown
       /\ last'.res.value.cleanedCount = Cardinality(gone)

\* C5 (as stated): a sweep at time now removes exactly the records with
\* expiresAt <= now, the one expiring at now included, leaves the others
\* unchanged and returns the number removed.
C5_SweepRemovesUpToNow ==
  [][SweepReturns =>
       SweepRemoves({k \in DOMAIN captchaStore : captchaStore[k].expiresAt <= now})]_vars

\* C5 (amended): a sweep at time now removes exactly the records with
\* expiresAt < now; a record whose expiresAt equals now stays.
C5_SweepRemovesBeforeNow ==
  [][SweepReturns =>
       SweepRemoves({k \in DOMAIN captchaStore : captchaStore[k].expiresAt < now})]_vars

\* a manual sweep removed a record and kept one that expires at this instant
C5_Witness ==
  /\ ~useRedis
  /\ last.op = "cleanupExpiredCaptchas"
  /\ ~last.res.thrown
  /\ last.res.value.cleanedCount >= 1
  /\ \E k \in DOMAIN captchaStore : captchaStore[k].expiresAt = now

\* C6: on the in-memory service getStats always reports active + expired =
\* total, and right after a sweep (same clock value, nothing in between) it
\* reports expired = 0.
C6_StatsAddUp ==
  ~useRedis =>
    LET stats == getStats(captchaStore, now)
    IN /\ stats.total = Cardinality(DOMAIN captchaStore)
       /\ stats.active + stats.expired = stats.total
       /\ last.op \in {"cleanup", "cleanupExpiredCaptchas"} => stats.expired = 0

\* the timer's sweep has just removed an expired record and left another one
C6_Witness ==
  /\ ~useRedis
  /\ last.op = "cleanup"
  /\ captchaStore # <<>>
  /\ \E id \in issued : track[id].tag = "owed" /\ id \notin DOMAIN captchaStore

\* this state follows a generate or refresh call that returned a challenge
ChallengeReturned ==
  /\ last.op \in {"generateCaptcha", "refreshCaptcha"}
  /\ MintedBy(last.res, last.via) # {}

\* C7: what generate and refresh return, and the payload the controller
\* builds from it, holds the id, the drawing and the expiry data and nothing
\* else; the drawing is not the stored answer.
C7_NoAnswerInResponse ==
  ChallengeReturned =>
    LET id == CHOOSE i \in MintedBy(last.res, last.via) : TRUE
    IN /\ id \in StoreKeys
       /\ IF last.via = "controller"
            THEN /\ DOMAIN last.res.value.data =
                      {"captchaId", "captchaSvg", "expiresAt", "expiresIn"}
                 /\ last.res.value.data.captchaSvg # Stored(id).text
            ELSE /\ DOMAIN last.res.value = {"id", "svg", "expiresAt", "expiresIn"}
                 /\ last.res.value.svg # Stored(id).text

\* the controller has answered a request for a math challenge with a payload
C7_Witness ==
  /\ ChallengeReturned
  /\ last.via = "controller"
  /\ last.type = "math"

\* C8: generate and refresh called with a kind outside default, math and
\* numeric fail and store nothing; no challenge of another kind is produced.
C8_UnsupportedKindFails ==
  ( /\ last.op \in {"generateCaptcha", "refreshCaptcha"}
    /\ last.type \notin SupportedKinds )
  => /\ MintedBy(last.res, last.via) = {}
     /\ \A id \in StoreKeys : Stored(id).type \in SupportedKinds

\* what the two verify calls on id with inputs x and y would return and
\* leave behind, called now in the same state
VerifyEffect(id, x) ==
  IF useRedis
    THEN [bypass |-> devBypass(env, id, x),
          rest |-> redisVerifyDecide(redisGet(redis, id), now, x)]
    ELSE [bypass |-> FALSE, rest |-> verifyCaptcha(captchaStore, now, env, id, x)]

UpperCaseChars == {"A", "B"}

StoredAnswersLowercase ==
  \A id \in StoreKeys : \A i \in DOMAIN Stored(id).text : Stored(id).text[i] \notin UpperCaseChars

Strings == UserInputs \ {Undefined}

\* C9 (as stated): in every state, for every id and all strings x, y with
\* the same lowercase form, verify(id, x) and verify(id, y) return the same
\* outcome and leave the same store; stored answers are lowercase.
C9_CaseInsensitive ==
  /\ \A id \in VerifyIds : \A x \in Strings, y \in Strings :
       toLowerCase(x) = toLowerCase(y) => VerifyEffect(id, x) = VerifyEffect(id, y)
  /\ StoredAnswersLowercase

\* the development test pair applies to id
IsDevTestId(id) == env.NODE_ENV = "development" /\ id = env.DEV_TEST_CAPTCHA_ID

\* C9 (amended): the same, for every id but the development test id, whose
\* code is matched as typed.
C9_CaseInsensitiveButDevTest ==
  /\ \A id \in VerifyIds : \A x \in Strings, y \in Strings :
       (~IsDevTestId(id) /\ toLowerCase(x) = toLowerCase(y))
         => VerifyEffect(id, x) = VerifyEffect(id, y)
  /\ StoredAnswersLowercase

\* a stored record accepts its answer typed in either case
C9_Witness ==
  \E id \in StoreKeys : \E x \in Strings, y \in Strings :
    /\ x # y
    /\ toLowerCase(x) = toLowerCase(y)
    /\ VerifyOutcomeNow(id, x) = "success"
    /\ VerifyOutcomeNow(id, y) = "success"

\* this step completes a verify call on id that may write its record
VerifyWrites(id) ==
  IF useRedis
    THEN \E c \in Slots : /\ calls[c].pc = "afterTtl"
                          /\ calls[c].id = id
                          /\ calls'[c] = Idle
    ELSE VerifyReturns(id)

\* C10: while a record is stored its attempts never decreases, and changes
\* only in a verify call on its id, on both backends and however concurrent
\* verify calls on the id interleave their get, ttl and set.
C10_AttemptsNeverDecrease ==
  [][\A id \in StoreKeys \cap StoreKeys' :
       /\ Stored(id)'.attempts >= Stored(id).attempts
       /\ Stored(id)'.attempts # Stored(id).attempts => VerifyWrites(id)]_vars

\* C11: for every issued challenge at most maxAttempts verify calls have
\* their input compared with the stored answer, on both backends and however
\* concurrent verify calls on the id interleave.
C11_ComparisonsBounded ==
  \A id \in DOMAIN audit.cmp : audit.cmp[id] <= track[id].max

\* C12: the id a generate call returns was never returned by an earlier
\* generate call and is not a key of the store when the call is made, so no
\* generate overwrites the record of a live challenge.
C12_GeneratedIdIsNew ==
  [][ ( /\ last'.op = "generateCaptcha"
        /\ MintedBy(last'.res, last'.via) # {} )
      => \A id \in MintedBy(last'.res, last'.via) :
           /\ id \notin issued
           /\ id \notin StoreKeys ]_vars

\* id is stored in the in-memory store and its expiry has passed
StoredExpired(id) ==
  /\ id \in DOMAIN captchaStore
  /\ isExpired(now, captchaStore[id])

\* C13: a verify on an id whose record is stored but expired is answered to
\* the end user exactly as a verify on the same id with no record stored
\* (same status, code and message), by the captcha verify endpoint and by
\* login / registration.
C13_AbsentAndExpiredAlike ==
  \A id \in issued, x \in UserInputs :
    StoredExpired(id) =>
      LET expired == verifyCaptcha(captchaStore, now, env, id, x).res
          absent == verifyCaptcha(MapDelete(captchaStore, id), now, env, id, x).res
      IN /\ ctlVerifyResponse(id, x, expired) = ctlVerifyResponse(id, x, absent)
         /\ authCaptchaResponse(expired) = authCaptchaResponse(absent)

\* C14: with the store available every verifyCaptcha call returns an
\* outcome as a value, whatever id and input it is given (a missing input
\* included); it never throws.
C14_VerifyNeverThrows ==
  (last.op = "verifyCaptcha" /\ redisReady) => ~last.res.thrown

\* a call that ended with a fault: it threw, or the controller answered 500
Faulted(res) ==
  \/ res.thrown
  \/ "status" \in DOMAIN res.value /\ res.value.status = 500

RequestOps == {"generateCaptcha", "verifyCaptcha", "refreshCaptcha"}
SwitchOps == {"switchToRedis", "switchToMemory"}

\* this step completes a request made to the Redis service while the
\* connection is not ready
RequestWhileNotReady ==
  /\ useRedis
  /\ ~redisReady
  /\ last'.op \in RequestOps

HealthReported(call) ==
  IF call.res.thrown THEN "raised"
  ELSE IF call.via = "controller" THEN call.res.value.data.status
  ELSE call.res.value.status

\* the bound store is available and the commands of this health call work
StoreWorks(call) == ~useRedis \/ (redisReady /\ call.type = "none")

\* C16: a health call on the bound backend, through the service or through
\* the controller's health endpoint, never raises and reports healthy
\* exactly when the store is available and its round trip works.
C16_HealthReflectsStore ==
  last.op \in {"healthCheck", "getHealthStatus"} =>
    HealthReported(last) = IF StoreWorks(last) THEN "healthy" ELSE "unhealthy"

\* C17: a refresh of a default challenge made while the store accepts new
\* records returns a new challenge, whether or not the delete of the old
\* record worked.
C17_RefreshIssuesDespiteDelete ==
  ( /\ last.op = "refreshCaptcha"
    /\ last.type = "default"
    /\ ~useRedis \/ redisReady )
  => MintedBy(last.res, last.via) # {}

\* what a caller sees of a result: a fault, the id of a challenge, or the
\* success flag, error code and attemptsLeft of a verification
Seen(res) ==
  IF res.thrown THEN <<"thrown">>
  ELSE IF "id" \in DOMAIN res.value THEN <<"challenge", res.value.id>>
  ELSE <<"verified", res.value.success, res.value.error, res.value.attemptsLeft>>

\* C18: for every sequence of generate, verify and refresh calls made one
\* after another in which no record reaches its expiry, the in-memory service
\* and the Redis service return the same outcome to every call.
C18_BackendsAgree ==
  last.via = "pair" => Seen(last.res.value.memory) = Seen(last.res.value.redis)

\* C19: the record of an issued id that is no longer in the store (it was
\* deleted by a successful verify, by exhaustion, by expiry handling or by
\* refresh) is never in the store again, however the get, ttl, set and del
\* steps of concurrent calls interleave.
C19_DeletionIsFinal ==
  [][ \A id \in issued : id \notin StoreKeys => id \notin StoreKeys' ]_vars

\* the store holds for id a record that is not expired, has attempts left
\* and whose answer is x in lower case
HoldsMatchingRecord(id, x) ==
  /\ id \in StoreKeys
  /\ now <= Stored(id).expiresAt
  /\ Stored(id).attempts < Stored(id).maxAttempts
  /\ x # Undefined
  /\ Stored(id).text = toLowerCase(x)

\* this step completes a verify call that returned success
VerifySucceeds ==
  /\ last'.op = "verifyCaptcha"
  /\ Outcome(last'.res) = "success"

\* C20 (as stated): verifyCaptcha(id, x) returns success only if the store
\* holds a record for id that is not expired, has attempts < maxAttempts and
\* whose answer is lowercase(x), in every environment and for every id.
C20_SuccessNeedsRecord ==
  [][ VerifySucceeds => HoldsMatchingRecord(last'.id, last'.input) ]_vars

\* C20 (amended): the same, except for the development test pair: under
\* NODE_ENV=development a verify of DEV_TEST_CAPTCHA_ID with
\* DEV_TEST_CAPTCHA_CODE succeeds without any record.
C20_SuccessNeedsRecordButDevTest ==
  [][ VerifySucceeds =>
        \/ HoldsMatchingRecord(last'.id, last'.input)
        \/ IsDevTestId(last'.id) /\ last'.input = env.DEV_TEST_CAPTCHA_CODE ]_vars

\* a verify on a generated id has succeeded and consumed its record
C20_Witness ==
  /\ last.op = "verifyCaptcha"
  /\ Outcome(last.res) = "success"
  /\ last.id \in issued
  /\ last.id \notin StoreKeys

\* the code a completed call handed to verifyCaptcha
CodePassed(call) == IF call.op = "login" THEN dtoCaptchaCode(call.input) ELSE call.input

\* this step completes a verifyCaptcha call, made to the bound service or by
\* login, that was given the development test pair under NODE_ENV=development
DevPairVerified ==
  /\ last'.op \in {"verifyCaptcha", "login"}
  /\ env.NODE_ENV = "development"
  /\ last'.id = env.DEV_TEST_CAPTCHA_ID
  /\ CodePassed(last') = env.DEV_TEST_CAPTCHA_CODE

\* C21: under NODE_ENV=development every verifyCaptcha call given exactly
\* DEV_TEST_CAPTCHA_ID and DEV_TEST_CAPTCHA_CODE returns success, on either
\* backend and however often, sends no store command and leaves both stores
\* as they were; login given that pair passes its captcha step.
C21_DevPairAlwaysPasses ==
  [][ DevPairVerified =>
        /\ Outcome(last'.res) = "success"
        /\ captchaStore' = captchaStore
        /\ redis' = redis
        /\ wiring' = wiring
        /\ calls' = calls
        /\ last'.op = "login" => authCaptchaResponse(last'.res).code = "passed" ]_vars

\* login has passed its captcha step with the test pair while the store
\* holds the record of an issued challenge
C21_Witness ==
  /\ last.op = "login"
  /\ env.NODE_ENV = "development"
  /\ last.id = env.DEV_TEST_CAPTCHA_ID
  /\ CodePassed(last) = env.DEV_TEST_CAPTCHA_CODE
  /\ Outcome(last.res) = "success"
  /\ issued # {}
  /\ issued \subseteq StoreKeys

C23_InvalidCountsOnce ==
  [][\A id \in issued :
       ( /\ VerifyReturns(id)
         /\ Outcome(last'.res) = "CAPTCHA_INVALID"
         /\ id \in StoreKeys
         /\ ~isExpired(now, Stored(id)) )
       => /\ id \in StoreKeys'
          /\ Stored(id)'.attempts = Stored(id).attempts + 1
          /\ last'.res.value.attemptsLeft = Stored(id)'.maxAttempts - Stored(id)'.attempts]_vars

\* the lifetime in seconds a generate call with these options asks for
TtlAsked(options) == OrElse(options.expireTime, DefaultExpireTime)

\* C24: every generate call stores a record with attempts = 0 and expiresAt =
\* creation time + ttl, where ttl is the expireTime of the call's options when
\* they give one and 300 seconds otherwise, and the expiresIn it returns, and
\* the one the controller answers with, is that ttl.
C24_TtlAsAsked ==
  ( /\ last.op = "generateCaptcha"
    /\ MintedBy(last.res, last.via) # {} )
  => LET id == CHOOSE i \in MintedBy(last.res, last.via) : TRUE
         ttl == TtlAsked(last.input)
     IN /\ id \in StoreKeys
        /\ Stored(id).attempts = 0
        /\ Stored(id).expiresAt = now + ttl * SecMs
        /\ IF last.via = "controller" THEN last.res.value.data.expiresIn = ttl
           ELSE last.res.value.expiresIn = ttl

\* this step completes a sweep request made through the controller while it
\* is bound to the Redis service
RedisSweepRequested ==
  /\ useRedis
  /\ last'.op = "cleanupExpiredCaptchas"
  /\ last'.via = "controller"

\* C25: with the Redis service bound, a sweep request through the controller
\* completes without a fault and returns a count, and it deletes and changes
\* no stored record.
C25_RedisSweepCompletes ==
  [][ RedisSweepRequested =>
        /\ ~Faulted(last'.res)
        /\ "cleanedCount" \in DOMAIN last'.res.value.data
        /\ redis' = redis
        /\ captchaStore' = captchaStore ]_vars

\* the answers a record could hold instead of its own
OtherAnswers == {toLowerCase(x) : x \in Strings}

\* what the stats call that returned last would return were the store the
\* given one
StatsOver(store) ==
  IF last.via = "controller" THEN statsRoute(env, useRedis, store, now)
  ELSE Returned(getStats(store, now))

\* C30: what getStats returns, from the service and as served by the stats
\* endpoint, does not depend on the answers of the stored challenges: with
\* any record's answer replaced by another the output is the same.
C30_StatsHideAnswers ==
  (last.op = "getStats" /\ ~useRedis) =>
    \A id \in DOMAIN captchaStore : \A text \in OtherAnswers :
      StatsOver([captchaStore EXCEPT ![id].text = text]) = last.res

\* C26: a challenge is used once: for every issued id at most one verify
\* call returns success, however concurrent verify calls on the id
\* interleave.
C26_SingleUse ==
  [][\A id \in issued :
       (VerifyReturns(id) /\ Outcome(last'.res) = "success")
         => track[id].tag # "consumed"]_vars

\* C29: a verifyCaptcha call that throws leaves the challenge as it was: the
\* record stored for its id, attempts included, is the same after the call
\* as before it, and no record appears or disappears for the id.
C29_FaultLeavesRecord ==
  [][\A id \in VerifyIds :
       (VerifyReturns(id) /\ last'.res.thrown)
         => /\ id \in StoreKeys <=> id \in StoreKeys'
            /\ id \in StoreKeys => Stored(id)' = Stored(id)]_vars

\* C28: the service the controller issues challenges with and the service
\* UserService verifies with at login are bound to the same backend, and in
\* memory mode to the same Map, in every reachable state: after
\* switchToRedis / switchToMemory, after destroyInstance and after a failed
\* Redis start set CAPTCHA_USE_REDIS to 'false'.
C28_SameStore ==
  /\ useRedis <=> wiring.user = "redis"
  /\ ~useRedis => wiring.user = "shared"

\* the ids a generate call can mint
MintableIds == {generateCaptchaId(t * TickMs, r) : t \in 0..MaxTicks, r \in RandSuffix}

\* C27: on the in-memory service every record is eventually removed: with
\* time advancing and the cleanup timer scheduled fairly, a record that is in
\* the store is later not in it, even if no verify is called on its id and
\* also when the service was destroyed before the record was created.
C27_EventuallyRemoved ==
  \A id \in MintableIds : (id \in DOMAIN captchaStore) ~> (id \notin DOMAIN captchaStore)

====
